---- MODULE Spec2Model ----
(***************************************************************************)
(* Model of latest_firebase.py: tenant reconciliation in main(), the       *)
(* paginated tenant listing, and the thread pool of per-tenant tasks that  *)
(* each fetch one email, create the user and send the password reset.      *)
(* The external services (Supabase, Identity Platform) are modelled by     *)
(* their state and by the nondeterministic outcome of every call.          *)
(***************************************************************************)
EXTENDS Integers, Sequences, FiniteSets, TLC

(* ------------------------------ bounds -------------------------------- *)
\* tenants already in the directory when the process is first started
MaxExisting == 2
\* largest value of TENANTS_TO_CREATE that is explored
MaxTarget == 2
\* failed fetches explored per get_email() call
MaxFetchFail == 1
\* largest page the directory server hands out (it never exceeds PAGE_SIZE)
ServerPageCap == 1
\* how many times main() is run in sequence
MaxRuns == 2
\* largest MAX_WORKERS that is explored
MaxPool == 2
\* number of distinct strings secrets.choice can produce for one length
MaxDraws == 2

(* ------------------------- program constants -------------------------- *)
PAGE_SIZE == 100
RETRY_DELAY == 2
PROJECT_ID == "proj"

None == <<>>

Max(a, b) == IF a >= b THEN a ELSE b
Min(a, b) == IF a <= b THEN a ELSE b

\* dict.get(key, default)
Get(d, key, default) == IF key \in DOMAIN d THEN d[key] ELSE default

\* random_alpha(length): the strings of that length it can return. Only
\* equality of strings matters, so a string is represented by its length and
\* its rank in order of first appearance: a draw returns one of the strings
\* drawn before, or the first string not drawn yet
random_alpha(length, drawn) ==
  { <<length, d>> : d \in 1..Min(MaxDraws, Cardinality(drawn) + 1) }

\* resource name the directory gives the tenant with identifier id
TenantName(id) == <<"projects", PROJECT_ID, "tenants", id>>

\* name.split("/")[-1]
LastSegment(name) == name[Len(name)]

VARIABLES
  pc,               \* position of main()
  run,              \* which run of main() this is
  prev,             \* how the previous run ended and how many tenants it created
  MAX_WORKERS,      \* environment: pool size
  TENANTS_TO_CREATE,\* environment: the target
  source_size,      \* email source: the emails it has to hand out, in all
  kill_switch,      \* operator: the kill switch has been set
  project_row,      \* fb_projects holds a row for PROJECT_ID
  supa_project_id,  \* main: id of that row
  dir,              \* directory server: resource names of the tenants
  fb_tenant,        \* rows of table fb_tenant
  tenants,          \* main: the list returned by get_project_tenants()
  existing,         \* main: the count printed as "Existing tenants:"
  target,           \* main
  to_create,        \* main
  i,                \* main: iterations of the creation loop completed
  tenant_id,        \* main: identifier returned by create_tenant
  lt,               \* get_project_tenants: tenants
  page_token,       \* get_project_tenants: page_token
  pages,            \* get_project_tenants: the requests made by this call
  n_create,         \* create_tenant calls issued by this run
  n_insert,         \* fb_tenant inserts issued by this run
  n_inherit,        \* update_tenant_inheritance calls issued by this run
  inherit_status,   \* response status of the loop's latest inheritance update
  display_name,     \* argument of the latest create_tenant call of the loop
  names_seen,       \* display names the loop passed to create_tenant before it
  tasks,            \* the futures submitted to the executor
  next_email,       \* email source: the next unclaimed email
  user_calls,       \* create_user calls made by this run: <<email, tenant id>>
  reset_calls       \* send_password_reset calls made by this run: <<email, tenant id>>

envVars  == <<MAX_WORKERS, TENANTS_TO_CREATE, source_size, kill_switch>>
dbVars   == <<project_row, fb_tenant>>
listVars == <<lt, page_token, pages>>
cntVars  == <<n_create, n_insert, n_inherit>>
nameVars == <<display_name, names_seen, inherit_status>>
loopVars == <<existing, target, to_create, i, tenant_id>>
poolVars == <<tasks, next_email, user_calls, reset_calls>>

vars == <<pc, run, prev, MAX_WORKERS, TENANTS_TO_CREATE, source_size,
          kill_switch, project_row,
          supa_project_id, dir, fb_tenant, tenants, existing, target, to_create, i,
          tenant_id, lt, page_token, pages, n_create, n_insert, n_inherit,
          inherit_status, display_name, names_seen, tasks, next_email, user_calls,
          reset_calls>>

\* the identifier the server assigns to the j-th tenant it creates
ServerId(j) == <<j>>

\* the directory after the server has created n tenants
DirOf(n) == [j \in 1..n |-> TenantName(ServerId(j))]

\* largest number of futures a run can have
MaxTasks == Max(MaxExisting, MaxTarget)

\* a source holding an email for every task of every run that is explored
Plenty == MaxRuns * MaxTasks

\* the state when the script is started, the source holding one of sizes
InitWith(sizes) ==
  /\ pc = "ensure_project_row"
  /\ source_size \in sizes
  /\ kill_switch = FALSE
  /\ run = 1
  /\ prev = [status |-> "none", created |-> 0]
  /\ MAX_WORKERS \in 1..MaxPool
  /\ TENANTS_TO_CREATE \in 0..MaxTarget
  /\ project_row \in BOOLEAN
  /\ supa_project_id = None
  /\ dir \in { DirOf(k) : k \in 0..MaxExisting }
  /\ fb_tenant = {}
  /\ tenants = <<>>
  /\ existing = 0
  /\ target = 0
  /\ to_create = 0
  /\ i = 0
  /\ tenant_id = None
  /\ lt = <<>>
  /\ page_token = None
  /\ pages = <<>>
  /\ n_create = 0
  /\ n_insert = 0
  /\ n_inherit = 0
  /\ inherit_status = None
  /\ display_name = None
  /\ names_seen = {}
  /\ tasks = <<>>
  /\ next_email = 1
  /\ user_calls = {}
  /\ reset_calls = {}

Init == InitWith({Plenty})

(* ----------------------------- Supabase ------------------------------- *)

\* ensure_project_row(): the row's id, inserting the row when it is missing
ensure_project_row ==
  /\ pc = "ensure_project_row"
  /\ project_row' = TRUE
  /\ supa_project_id' = <<1>>
  /\ pc' = "list1"
  /\ UNCHANGED <<run, prev, envVars, dir, fb_tenant, tenants, loopVars,
                 listVars, cntVars, nameVars, poolVars>>

\* the select or the insert of ensure_project_row() raises: main() ends
ensure_project_row_raises ==
  /\ pc = "ensure_project_row"
  /\ pc' = "crashed"
  /\ UNCHANGED <<run, prev, envVars, dbVars, supa_project_id, dir, tenants,
                 loopVars, listVars, cntVars, nameVars, poolVars>>

(* ------------------------------ tenants ------------------------------- *)

\* offset a page token stands for
Offset(tok) == IF tok = None THEN 0 ELSE tok[1]

\* the responses the directory may give to a list request with this token
ServerPages(d, tok) ==
  LET off == Offset(tok)
      rest == Len(d) - off
  IN IF rest <= 0
       THEN { [x \in {} |-> None] }
       ELSE { IF off + n < Len(d)
                THEN [tenants |-> SubSeq(d, off + 1, off + n),
                      nextPageToken |-> <<off + n>>]
                ELSE [tenants |-> SubSeq(d, off + 1, off + n)]
              : n \in 1..Min(Min(PAGE_SIZE, ServerPageCap), rest) }

\* tenants replaced by the page instead of extended by it
ExtendTenants_Overwrite(ts, res) == Get(res, "tenants", <<>>)

\* tenants.extend(res.get("tenants", []))
ExtendTenants(ts, res) == ts \o Get(res, "tenants", <<>>)

\* the loop of get_project_tenants left after the first page
MorePages_FirstPageOnly(tok) == FALSE

\* the loop of get_project_tenants goes on: not (not page_token)
MorePages(tok) == tok # None

\* one iteration of the loop of get_project_tenants()
get_project_tenants ==
  /\ pc \in {"list1", "list2"}
  /\ \E res \in ServerPages(dir, page_token):
       /\ lt' = ExtendTenants(lt, res)
       /\ page_token' = Get(res, "nextPageToken", None)
       /\ pages' = Append(pages, [token |-> page_token,
                                  count |-> Len(Get(res, "tenants", <<>>)),
                                  next  |-> Get(res, "nextPageToken", None)])
  /\ pc' = IF MorePages(page_token')
             THEN pc
             ELSE IF pc = "list1" THEN "list1_ret" ELSE "list2_ret"
  /\ UNCHANGED <<run, prev, envVars, dbVars, supa_project_id, dir, tenants,
                 loopVars, cntVars, nameVars, poolVars>>

\* to_create computed without looking at the tenants that exist
ToCreate_IgnoreExisting(tgt, k) == Max(0, tgt)

\* to_create = max(0, target - len(tenants))
ToCreate(tgt, k) == Max(0, tgt - k)

\* first get_project_tenants() returns; main reads the target
read_target ==
  /\ pc = "list1_ret"
  /\ tenants' = lt
  /\ existing' = Len(lt)
  /\ target' = TENANTS_TO_CREATE
  /\ to_create' = ToCreate(TENANTS_TO_CREATE, Len(lt))
  /\ i' = 0
  /\ lt' = <<>>
  /\ page_token' = None
  /\ pages' = <<>>
  /\ pc' = "create_loop"
  /\ UNCHANGED <<run, prev, envVars, dbVars, supa_project_id, dir, tenant_id,
                 cntVars, nameVars, poolVars>>

\* the display names the creation loop has passed to create_tenant so far
NamesPassed ==
  IF display_name = None THEN names_seen ELSE names_seen \cup {display_name}

\* create_tenant(random_alpha()) returns the new tenant's identifier
create_tenant ==
  /\ pc = "create_loop"
  /\ i < to_create
  /\ \E name \in random_alpha(7, NamesPassed):
       /\ display_name' = name
       /\ names_seen' = NamesPassed
  /\ inherit_status' = None
  /\ n_create' = n_create + 1
  /\ dir' = Append(dir, TenantName(ServerId(Len(dir) + 1)))
  /\ tenant_id' = LastSegment(TenantName(ServerId(Len(dir) + 1)))
  /\ pc' = "insert"
  /\ UNCHANGED <<run, prev, envVars, dbVars, supa_project_id, tenants,
                 existing, target, to_create, i, listVars, n_insert, n_inherit,
                 poolVars>>

\* the response carries no "name" (or the request failed): create_tenant raises
create_tenant_raises ==
  /\ pc = "create_loop"
  /\ i < to_create
  /\ \E name \in random_alpha(7, NamesPassed):
       /\ display_name' = name
       /\ names_seen' = NamesPassed
  /\ inherit_status' = None
  /\ n_create' = n_create + 1
  /\ pc' = "crashed"
  /\ UNCHANGED <<run, prev, envVars, dbVars, supa_project_id, dir, tenants,
                 loopVars, listVars, n_insert, n_inherit, poolVars>>

\* supabase.table("fb_tenant").insert(...)
insert_fb_tenant ==
  /\ pc = "insert"
  /\ n_insert' = n_insert + 1
  /\ fb_tenant' = fb_tenant \cup
                    {[tenant_id |-> tenant_id, fb_project_id |-> supa_project_id]}
  /\ pc' = "inherit"
  /\ UNCHANGED <<run, prev, envVars, project_row, supa_project_id, dir,
                 tenants, loopVars, listVars, n_create, n_inherit, nameVars,
                 poolVars>>

\* the insert raises: main() ends
insert_fb_tenant_raises ==
  /\ pc = "insert"
  /\ n_insert' = n_insert + 1
  /\ pc' = "crashed"
  /\ UNCHANGED <<run, prev, envVars, dbVars, supa_project_id, dir, tenants,
                 loopVars, listVars, n_create, n_inherit, nameVars, poolVars>>

\* a status other than 200 that ends main()
AfterInherit_StopOnFailure(status) ==
  IF status = "200" THEN "create_loop" ELSE "crashed"

\* where main goes after update_tenant_inheritance has a response: status
\* 200 or not, the function only prints and returns
AfterInherit(status) == "create_loop"

\* update_tenant_inheritance(tenant_id) gets a response; then
\* time.sleep(0.2) and the next iteration
update_tenant_inheritance ==
  /\ pc = "inherit"
  /\ n_inherit' = n_inherit + 1
  /\ \E status \in {"200", "non200"}:
       /\ inherit_status' = <<status>>
       /\ pc' = AfterInherit(status)
       /\ i' = IF AfterInherit(status) = "create_loop" THEN i + 1 ELSE i
  /\ UNCHANGED <<run, prev, envVars, dbVars, supa_project_id, dir, tenants,
                 existing, target, to_create, tenant_id, listVars, n_create,
                 n_insert, display_name, names_seen, poolVars>>

\* refresh_access_token() or requests.patch raises: main() ends
update_tenant_inheritance_raises ==
  /\ pc = "inherit"
  /\ n_inherit' = n_inherit + 1
  /\ pc' = "crashed"
  /\ UNCHANGED <<run, prev, envVars, dbVars, supa_project_id, dir, tenants,
                 loopVars, listVars, n_create, n_insert, nameVars, poolVars>>

\* a creation loop that may be left before its last iteration
LoopOver_Early(done, n) == TRUE

\* for _ in range(to_create) has run all its iterations
LoopOver(done, n) == ~(done < n)

\* the creation loop is over: main calls get_project_tenants() again
end_create_loop ==
  /\ pc = "create_loop"
  /\ LoopOver(i, to_create)
  /\ inherit_status' = None
  /\ display_name' = None
  /\ names_seen' = {}
  /\ pc' = "list2"
  /\ UNCHANGED <<run, prev, envVars, dbVars, supa_project_id, dir, tenants,
                 loopVars, listVars, cntVars, poolVars>>

\* the tenant tasks fed from the list made before the creation loop
Relisted_KeepFirstList(before, listed) == before

\* tenants = get_project_tenants(): the new list replaces the first one
Relisted(before, listed) == listed

\* second get_project_tenants() returns; the executor is created
relisted ==
  /\ pc = "list2_ret"
  /\ tenants' = Relisted(tenants, lt)
  /\ lt' = <<>>
  /\ page_token' = None
  /\ pages' = <<>>
  /\ pc' = "submit"
  /\ UNCHANGED <<run, prev, envVars, dbVars, supa_project_id, dir, loopVars,
                 cntVars, nameVars, poolVars>>

(* ----------------------------- the pool ------------------------------- *)

\* the future of process_tenant(tenant), as submitted; result is how the
\* latest call the task made for its email ended
NewTask(tenant) ==
  [tenant |-> tenant, tenant_id |-> None, pc |-> "queued", email |-> None,
   fails |-> 0, sleep |-> 0, result |-> "none",
   n_user |-> 0, n_reset |-> 0, status |-> "none", printed |-> None]

\* process_tenant returns (tenant_id, status); its locals are gone
Returned(task, status) ==
  [task EXCEPT !.pc = "returned", !.status = status, !.email = None,
               !.result = "none", !.sleep = 0]

\* a task occupies a pool thread
Running(task) == task.pc \notin {"queued", "returned"}

NumRunning == Cardinality({t \in DOMAIN tasks : Running(tasks[t])})

\* a future counted as finished as soon as a pool thread has taken it
FutureDone_Started(task) == task.pc # "queued"

\* the future has a result
FutureDone(task) == task.pc = "returned"

\* every future given the first tenant of the list
SubmittedTenant_First(ts, n) == ts[1]

\* the tenant the n-th iteration of "for t in tenants" submits
SubmittedTenant(ts, n) == ts[n]

\* executor.submit(process_tenant, t) for the next tenant of the list
submit ==
  /\ pc = "submit"
  /\ Len(tasks) < Len(tenants)
  /\ tasks' = Append(tasks, NewTask(SubmittedTenant(tenants, Len(tasks) + 1)))
  /\ UNCHANGED <<pc, run, prev, envVars, dbVars, supa_project_id, dir,
                 tenants, loopVars, listVars, cntVars, nameVars, next_email,
                 user_calls, reset_calls>>

\* every tenant has been submitted: main enters as_completed(futures)
submitted ==
  /\ pc = "submit"
  /\ Len(tasks) = Len(tenants)
  /\ pc' = "as_completed"
  /\ UNCHANGED <<run, prev, envVars, dbVars, supa_project_id, dir, tenants,
                 loopVars, listVars, cntVars, nameVars, poolVars>>

\* a pool that starts a thread for every queued task
FreeThread_Always(running, workers) == TRUE

\* ThreadPoolExecutor(max_workers=MAX_WORKERS) has a thread to spare
FreeThread(running, workers) == running < workers

\* a free pool thread takes the oldest queued task; process_tenant starts
start_task(t) ==
  /\ t \in DOMAIN tasks
  /\ tasks[t].pc = "queued"
  /\ \A u \in 1..(t - 1) : tasks[u].pc # "queued"
  /\ FreeThread(NumRunning, MAX_WORKERS)
  /\ tasks' = [tasks EXCEPT ![t].pc = "get_email",
                            ![t].tenant_id = LastSegment(tasks[t].tenant)]
  /\ UNCHANGED <<pc, run, prev, envVars, dbVars, supa_project_id, dir,
                 tenants, loopVars, listVars, cntVars, nameVars, next_email,
                 user_calls, reset_calls>>

\* emails the source has not handed out yet
SourceLeft == source_size - (next_email - 1)

\* what one attempt of get_email() can meet: a row, an exception of the
\* RPC, or an empty result. A source that has emails left fails at most
\* MaxFetchFail times in a row; one that has none left never returns a row
FetchOutcomes(fails) ==
  (IF SourceLeft > 0 THEN {"ok"} ELSE {})
    \cup (IF fails < MaxFetchFail \/ SourceLeft <= 0
           THEN {"exception", "empty"} ELSE {})

\* get_email() returning whatever an empty result holds
AfterFetch_EmptyReturns(outcome) ==
  IF outcome \in {"ok", "empty"} THEN "create_user" ELSE "retry_sleep"

\* where get_email() goes after an attempt: it returns res.data[0]["email"],
\* or the except branch sleeps and the loop tries again
AfterFetch(outcome) ==
  IF outcome = "ok" THEN "create_user" ELSE "retry_sleep"

\* a get_email() that raises once it has failed MaxFetchFail times
GiveUp_AfterRetries(fails) == fails >= MaxFetchFail

\* get_email() gives up after this many failed attempts: never (while True)
GiveUp(fails) == FALSE

\* one attempt of get_email()
get_email(t) ==
  /\ t \in DOMAIN tasks
  /\ tasks[t].pc = "get_email"
  /\ \E outcome \in FetchOutcomes(tasks[t].fails):
       LET nxt  == IF outcome # "ok" /\ GiveUp(tasks[t].fails) THEN "returned"
                   ELSE AfterFetch(outcome)
           task == [tasks[t] EXCEPT
              !.pc = nxt,
              !.email = IF outcome = "ok" THEN <<next_email>> ELSE None,
              !.fails = IF outcome = "ok" THEN 0
                        ELSE Min(@ + 1, MaxFetchFail),
              !.sleep = IF nxt = "retry_sleep" THEN RETRY_DELAY ELSE 0]
       IN
       /\ tasks' = [tasks EXCEPT
                      ![t] = IF nxt = "returned" THEN Returned(task, "error")
                             ELSE task]
       /\ next_email' = IF outcome = "ok" THEN next_email + 1 ELSE next_email
  /\ UNCHANGED <<pc, run, prev, envVars, dbVars, supa_project_id, dir,
                 tenants, loopVars, listVars, cntVars, nameVars, user_calls,
                 reset_calls>>

\* time.sleep(RETRY_DELAY) is over: the next attempt
retry_sleep(t) ==
  /\ t \in DOMAIN tasks
  /\ tasks[t].pc = "retry_sleep"
  /\ tasks' = [tasks EXCEPT ![t].pc = "get_email", ![t].sleep = 0]
  /\ UNCHANGED <<pc, run, prev, envVars, dbVars, supa_project_id, dir,
                 tenants, loopVars, listVars, cntVars, nameVars, next_email,
                 user_calls, reset_calls>>

\* a create_user exception that leaves add_user_and_send_reset
AfterCreateUser_Propagate(outcome) ==
  IF outcome = "error" THEN "returned" ELSE "send_reset"

\* an existing user that makes the task skip the password reset
AfterCreateUser_SkipExisting(outcome) ==
  IF outcome = "exists" THEN "jitter" ELSE "send_reset"

\* where add_user_and_send_reset goes after create_user: the except branch
\* prints the failure, and send_password_reset follows in every case
AfterCreateUser(outcome) == "send_reset"

\* tenant_client.create_user(email=email, ...)
create_user(t) ==
  /\ t \in DOMAIN tasks
  /\ tasks[t].pc = "create_user"
  /\ user_calls' = user_calls \cup {<<tasks[t].email, tasks[t].tenant_id>>}
  /\ \E outcome \in {"created", "exists", "error"}:
       LET nxt  == AfterCreateUser(outcome)
           task == [tasks[t] EXCEPT !.pc = nxt, !.result = outcome,
                                    !.n_user = @ + 1]
       IN tasks' = [tasks EXCEPT
                      ![t] = IF nxt = "returned" THEN Returned(task, "error")
                             ELSE task]
  /\ UNCHANGED <<pc, run, prev, envVars, dbVars, supa_project_id, dir,
                 tenants, loopVars, listVars, cntVars, nameVars, next_email,
                 reset_calls>>

\* where the task goes after send_password_reset: a response of any status
\* lets it go on to the jitter sleep; an exception of requests.post leaves
\* add_user_and_send_reset and is caught by process_tenant
AfterReset(outcome) == IF outcome = "raise" THEN "returned" ELSE "jitter"

\* every failed password reset turned into the task's status
StatusOf_AnyFailure(reset) ==
  IF reset \in {"non200", "raise"} THEN "error" ELSE "ok"

\* the status process_tenant returns, given how send_password_reset ended
StatusOf(reset) == IF reset = "raise" THEN "error" ELSE "ok"

\* send_password_reset(email, tenant_id)
send_password_reset(t) ==
  /\ t \in DOMAIN tasks
  /\ tasks[t].pc = "send_reset"
  /\ reset_calls' = reset_calls \cup {<<tasks[t].email, tasks[t].tenant_id>>}
  /\ \E outcome \in {"200", "non200", "raise"}:
       LET nxt  == AfterReset(outcome)
           task == [tasks[t] EXCEPT !.pc = nxt, !.result = outcome,
                                    !.n_reset = @ + 1]
       IN tasks' = [tasks EXCEPT
                      ![t] = IF nxt = "returned"
                               THEN Returned(task, StatusOf(outcome))
                               ELSE task]
  /\ UNCHANGED <<pc, run, prev, envVars, dbVars, supa_project_id, dir,
                 tenants, loopVars, listVars, cntVars, nameVars, next_email,
                 user_calls>>

\* time.sleep(random.uniform(0.2, 0.6)) is over: process_tenant returns
jitter(t) ==
  /\ t \in DOMAIN tasks
  /\ tasks[t].pc = "jitter"
  /\ tasks' = [tasks EXCEPT ![t] = Returned(tasks[t], StatusOf(tasks[t].result))]
  /\ UNCHANGED <<pc, run, prev, envVars, dbVars, supa_project_id, dir,
                 tenants, loopVars, listVars, cntVars, nameVars, next_email,
                 user_calls, reset_calls>>

\* as_completed yields a finished future; main prints its result
report(t) ==
  /\ pc = "as_completed"
  /\ t \in DOMAIN tasks
  /\ FutureDone(tasks[t])
  /\ tasks[t].printed = None
  /\ tasks' = [tasks EXCEPT ![t].printed = <<tasks[t].status>>]
  /\ UNCHANGED <<pc, run, prev, envVars, dbVars, supa_project_id, dir,
                 tenants, loopVars, listVars, cntVars, nameVars, next_email,
                 user_calls, reset_calls>>

\* as_completed is exhausted; leaving the with block waits for the pool
\* (shutdown(wait=True)); main prints "Done"
exit_pool ==
  /\ pc = "as_completed"
  /\ \A t \in DOMAIN tasks : tasks[t].printed # None
  /\ \A t \in DOMAIN tasks : FutureDone(tasks[t])
  /\ pc' = "done"
  /\ UNCHANGED <<run, prev, envVars, dbVars, supa_project_id, dir, tenants,
                 loopVars, listVars, cntVars, nameVars, poolVars>>

\* the operator sets the kill switch while main() is still ahead of the
\* round of tenant tasks; nothing in the script reads it
set_kill_switch ==
  /\ ~kill_switch
  /\ tasks = <<>>
  /\ pc \notin {"done", "crashed"}
  /\ kill_switch' = TRUE
  /\ UNCHANGED <<pc, run, prev, MAX_WORKERS, TENANTS_TO_CREATE, source_size,
                 dbVars, supa_project_id, dir, tenants, loopVars, listVars,
                 cntVars, nameVars, poolVars>>

\* the script is started again with the same environment
restart ==
  /\ pc \in {"done", "crashed"}
  /\ run < MaxRuns
  /\ run' = run + 1
  /\ prev' = [status |-> pc, created |-> n_create]
  /\ pc' = "ensure_project_row"
  /\ supa_project_id' = None
  /\ tenants' = <<>>
  /\ existing' = 0
  /\ target' = 0
  /\ to_create' = 0
  /\ i' = 0
  /\ tenant_id' = None
  /\ lt' = <<>>
  /\ page_token' = None
  /\ pages' = <<>>
  /\ n_create' = 0
  /\ n_insert' = 0
  /\ n_inherit' = 0
  /\ tasks' = <<>>
  /\ user_calls' = {}
  /\ reset_calls' = {}
  /\ display_name' = None
  /\ names_seen' = {}
  /\ inherit_status' = None
  /\ UNCHANGED <<envVars, dbVars, dir, next_email>>

MainStep ==
  \/ ensure_project_row
  \/ ensure_project_row_raises
  \/ get_project_tenants
  \/ read_target
  \/ create_tenant
  \/ create_tenant_raises
  \/ insert_fb_tenant
  \/ insert_fb_tenant_raises
  \/ update_tenant_inheritance
  \/ update_tenant_inheritance_raises
  \/ end_create_loop
  \/ relisted
  \/ submit
  \/ submitted
  \/ \E t \in 1..MaxTasks : report(t)
  \/ exit_pool

TaskStep(t) ==
  \/ start_task(t)
  \/ get_email(t)
  \/ retry_sleep(t)
  \/ create_user(t)
  \/ send_password_reset(t)
  \/ jitter(t)

\* one run of the script
Next ==
  \/ MainStep
  \/ \E t \in 1..MaxTasks : TaskStep(t)

Spec == Init /\ [][Next]_vars

\* one run in which main() and every pool thread keep being scheduled
FairSpec ==
  /\ Spec
  /\ WF_vars(MainStep)
  /\ \A t \in 1..MaxTasks : WF_vars(TaskStep(t))

\* the script run again and again, with a pool of one thread
RerunInit == Init /\ MAX_WORKERS = 1

RerunNext ==
  \/ MainStep
  \/ \E t \in 1..MaxTasks : TaskStep(t)
  \/ restart

RerunSpec == RerunInit /\ [][RerunNext]_vars

\* one run during which the operator may set the kill switch
KillNext ==
  \/ MainStep
  \/ \E t \in 1..MaxTasks : TaskStep(t)
  \/ set_kill_switch

KillSpec == Init /\ [][KillNext]_vars

\* one run against a source that holds a given number of emails, from none
\* to one more than there can be tasks, with a pool of one or two threads
SourceInit == InitWith(0..(MaxTasks + 1)) /\ MAX_WORKERS <= 2

SourceSpec == SourceInit /\ [][Next]_vars

FairSourceSpec ==
  /\ SourceSpec
  /\ WF_vars(MainStep)
  /\ \A t \in 1..MaxTasks : WF_vars(TaskStep(t))

(* ------------------------------ claims -------------------------------- *)

\* main() is past the creation loop: no call of the loop raised
PastCreateLoop == pc \in {"list2", "list2_ret", "submit", "as_completed", "done"}

\* C1: with k tenants listed and target N, a run whose creation loop ended
\* without an exception has issued exactly max(0, N - k) create_tenant
\* calls, never more at any point, and with k >= N it has issued no
\* create_tenant call, no fb_tenant insert and no inheritance update.
C1_ReconcileCount ==
  /\ PastCreateLoop =>
        n_create = (IF target > existing THEN target - existing ELSE 0)
  /\ n_create <= (IF target > existing THEN target - existing ELSE 0)
  /\ existing >= target => n_create = 0 /\ n_insert = 0 /\ n_inherit = 0

C1_Witness ==
  /\ pc = "done"
  /\ existing = 1
  /\ target = 2
  /\ n_create = 1
  /\ n_insert = 1
  /\ n_inherit = 1

\* C2: a run that follows a run which ended normally (all its creations
\* succeeded), with the same target and the same directory, issues no
\* create_tenant call.
C2_SecondRunCreatesNothing ==
  (run > 1 /\ prev.status = "done") => n_create = 0

C2_Witness ==
  /\ run = 2
  /\ prev.status = "done"
  /\ prev.created = 2
  /\ pc = "done"
  /\ n_create = 0

\* C5: main() is at "Done" only when every tenant of the list has been
\* submitted and every submitted task has returned, a task that returned
\* "error" included; a task still inside a pool thread keeps main() waiting.
C5_DrainBeforeDone ==
  pc = "done" =>
    /\ Len(tasks) = Len(tenants)
    /\ \A t \in DOMAIN tasks :
         tasks[t].pc = "returned" /\ tasks[t].status \in {"ok", "error"}

C5_Witness ==
  /\ pc = "done"
  /\ Len(tasks) = 2
  /\ tasks[1].status = "error"
  /\ tasks[2].status = "ok"

\* create_tenant calls of this run that did not create a tenant
CreateFailures == n_create - (Len(dir) - existing)

\* C6: a failed create_tenant call does not end the run: main() is never
\* stopped by it.
C6_CreateFailureNeverAborts ==
  CreateFailures > 0 => pc # "crashed"

\* C7: every display name passed to create_tenant differs from all display
\* names passed to it before.
C7_DisplayNamesDistinct ==
  display_name \notin names_seen

\* the pages requested by the current call chain from the start of the
\* directory to a page without nextPageToken, each token requested once
PagesChained ==
  /\ pages[1].token = None
  /\ \A j \in 1..(Len(pages) - 1) :
       pages[j].next # None /\ pages[j + 1].token = pages[j].next
  /\ \A j, l \in 1..Len(pages) : j # l => pages[j].token # pages[l].token

\* C10: get_project_tenants() goes on while the page it got carries a
\* nextPageToken and returns at the first page without one; it has then
\* requested every page once, in order, and returns all tenants of the
\* directory in the directory's order.
C10_ListFollowsTokens ==
  /\ pc \in {"list1", "list2"} =>
        \A j \in 1..Len(pages) : pages[j].next # None
  /\ pc \in {"list1_ret", "list2_ret"} =>
        /\ Len(pages) >= 1
        /\ PagesChained
        /\ pages[Len(pages)].next = None
        /\ lt = dir

C10_Witness ==
  /\ pc = "list2_ret"
  /\ Len(pages) = 2
  /\ lt = dir
  /\ Len(lt) = 2

\* the tasks that hold email e
Holders(e) == {t \in DOMAIN tasks : tasks[t].email = <<e>>}

\* the tenants whose worker holds email e or has made a call for it
Handlers(e) ==
  {tasks[t].tenant_id : t \in Holders(e)}
    \cup {c[2] : c \in {d \in user_calls \cup reset_calls : d[1] = <<e>>}}

\* C3: every email the source has handed out is with exactly one tenant
\* worker: at most one task holds it, all calls made for it are for that
\* task's tenant, the task that holds it goes through create_user and then
\* send_password_reset with it, and an email no task holds any more has had
\* both calls made; no call is made for an email the source did not hand out.
C3_EachEmailOneWorker ==
  /\ \A e \in 1..(next_email - 1) :
       /\ Cardinality(Handlers(e)) = 1
       /\ Cardinality(Holders(e)) <= 1
       /\ \A t \in Holders(e) :
            LET call == <<tasks[t].email, tasks[t].tenant_id>> IN
            /\ tasks[t].pc \in {"create_user", "send_reset", "jitter"}
            /\ (tasks[t].pc # "create_user") <=> (call \in user_calls)
            /\ (tasks[t].pc = "jitter") <=> (call \in reset_calls)
       /\ Holders(e) = {} =>
            \E c \in user_calls \cap reset_calls : c[1] = <<e>>
  /\ \A c \in user_calls \cup reset_calls :
       c[1] # None /\ c[1][1] < next_email

C3_Witness ==
  /\ Len(tasks) = 2
  /\ tasks[1].pc = "send_reset"
  /\ tasks[1].email = <<2>>
  /\ tasks[2].pc = "jitter"
  /\ tasks[2].email = <<1>>
  /\ <<<<1>>, tasks[2].tenant_id>> \in user_calls \cap reset_calls

\* C4: a task whose create_user met "already exists" goes on to
\* send_password_reset with the same email and tenant, and does not go
\* past that step without the call having been made.
C4_ExistsStillResets ==
  /\ [](\A t \in DOMAIN tasks :
          tasks[t].result = "exists" =>
            /\ tasks[t].pc = "send_reset"
            /\ tasks[t].email # None
            /\ <<tasks[t].email, tasks[t].tenant_id>> \notin reset_calls)
  /\ [][\A t \in DOMAIN tasks :
          /\ (tasks[t].pc = "create_user" /\ tasks'[t].result = "exists") =>
                /\ tasks'[t].pc = "send_reset"
                /\ tasks'[t].email = tasks[t].email
                /\ tasks'[t].tenant_id = tasks[t].tenant_id
          /\ (tasks[t].result = "exists" /\ tasks'[t] # tasks[t]) =>
                /\ <<tasks[t].email, tasks[t].tenant_id>> \in reset_calls'
                /\ tasks'[t].n_reset = 1
       ]_vars

C4_Witness ==
  \E t \in DOMAIN tasks :
    /\ tasks[t].result = "exists"
    /\ tasks[t].pc = "send_reset"
    /\ <<tasks[t].email, tasks[t].tenant_id>> \in user_calls

\* C8: get_email() never ends in an exception; an attempt that fails (the
\* RPC raises or the result is empty) is followed by a sleep of RETRY_DELAY
\* and then by another attempt; get_email() returns only on a successful
\* fetch, with the email that fetch claimed from the source.
C8_GetEmailRetries ==
  /\ [](\A t \in DOMAIN tasks :
          /\ tasks[t].pc = "retry_sleep" =>
                tasks[t].sleep = RETRY_DELAY /\ tasks[t].email = None
          /\ tasks[t].pc \in {"create_user", "send_reset", "jitter"} =>
                tasks[t].email # None /\ tasks[t].email[1] < next_email)
  /\ [][\A t \in DOMAIN tasks :
          /\ tasks[t].pc \in {"get_email", "retry_sleep"} =>
                tasks'[t].pc \in {"get_email", "retry_sleep", "create_user"}
          /\ (tasks[t].pc = "get_email" /\ tasks'[t].fails = tasks[t].fails + 1) =>
                tasks'[t].pc = "retry_sleep" /\ next_email' = next_email
          /\ (tasks[t].pc = "retry_sleep" /\ tasks'[t] # tasks[t]) =>
                tasks'[t].pc = "get_email"
          /\ (tasks[t].pc = "get_email" /\ tasks'[t].pc = "create_user") =>
                /\ tasks'[t].email = <<next_email>>
                /\ next_email' = next_email + 1
       ]_vars

C8_Witness ==
  \E t \in DOMAIN tasks :
    /\ tasks[t].pc = "get_email"
    /\ tasks[t].fails = 1
    /\ tasks[t].email = None

\* C9 as stated: a task whose password reset failed (the request raised or
\* the response was not 200) returns that failure as its status.
C9_FailureIsTaskStatus ==
  [][\A t \in DOMAIN tasks :
       (/\ tasks[t].pc # "returned"
        /\ tasks'[t].pc = "returned"
        /\ tasks[t].result = "non200" \/ tasks[t].pc = "send_reset")
         => tasks'[t].status = "error"
    ]_vars

\* C9 amended: an email gets at most one create_user and one
\* send_password_reset call and its task never fetches again; a create_user
\* error or a non-200 reset response is only printed and the task returns
\* "ok", while an exception of the reset request is returned, and printed by
\* main(), as the task's status "error"; the step that ends a task changes
\* no other task, and after a task has failed every task still returns and
\* main() reaches "Done".
C9_FailureContained ==
  /\ [](\A t \in DOMAIN tasks :
          /\ tasks[t].n_user <= 1
          /\ tasks[t].n_reset <= 1
          /\ tasks[t].printed # None =>
                tasks[t].pc = "returned" /\ tasks[t].printed = <<tasks[t].status>>)
  /\ [][\A t \in DOMAIN tasks :
          /\ tasks[t].email # None =>
                /\ tasks'[t].pc \notin {"queued", "get_email", "retry_sleep"}
                /\ tasks'[t].email = tasks[t].email \/ tasks'[t].pc = "returned"
          /\ (tasks[t].pc = "send_reset" /\ tasks[t].result = "error"
                /\ tasks'[t] # tasks[t]) =>
                /\ tasks'[t].pc \in {"jitter", "returned"}
                /\ tasks'[t].pc = "returned" => tasks'[t].status = "error"
          /\ (tasks[t].pc # "returned" /\ tasks'[t].pc = "returned") =>
                /\ tasks[t].pc \in {"send_reset", "jitter"}
                /\ tasks'[t].n_user = 1
                /\ tasks'[t].n_reset = 1
                /\ tasks'[t].status =
                     IF tasks[t].pc = "send_reset" THEN "error" ELSE "ok"
                /\ \A u \in DOMAIN tasks \ {t} : tasks'[u] = tasks[u]
       ]_vars
  /\ ((\E t \in DOMAIN tasks : tasks[t].status = "error")
        ~> (/\ pc = "done"
            /\ Len(tasks) = Len(tenants)
            /\ \A u \in DOMAIN tasks : tasks[u].pc = "returned"))

C9_Witness ==
  /\ Len(tasks) = 2
  /\ tasks[1].status = "error"
  /\ tasks[1].printed = <<"error">>
  /\ tasks[2].pc = "send_reset"
  /\ tasks[2].result = "error"

\* C11: once started, the process keeps running round after round and never
\* stops on its own: main() never comes to its end.
C11_NeverStops == pc # "done"

\* C12: with three emails in the source and one tenant, the one worker has
\* taken every email of the source by the time the round is over.
C12_WorkerTakesAllItems ==
  (pc = "done" /\ source_size = 3 /\ Len(tasks) = 1 /\ tasks[1].status = "ok")
    => SourceLeft = 0

\* the script has no ceiling and the text gives none a value: the ceiling
\* taken here is the one just below the largest target that is explored
SafetyCeiling == MaxTarget - 1

\* C13: a target above the safety ceiling is rejected at startup: no
\* create_tenant call is issued and no worker is started.
C13_CeilingRejectsTarget ==
  TENANTS_TO_CREATE > SafetyCeiling => (n_create = 0 /\ tasks = <<>>)

\* C14: when the kill switch is set before the round of tenant tasks has
\* begun, no task of that round ever leaves the queue: no get_email call is
\* made after the boundary and no item is started.
C14_KillSwitchStopsFetching ==
  kill_switch => \A t \in DOMAIN tasks : tasks[t].pc = "queued"

\* the tenants the directory held when this run began, and those it created
PreExisting == { dir[j] : j \in 1..(Len(dir) - n_create) }
CreatedThisRun == { dir[j] : j \in (Len(dir) - n_create + 1)..Len(dir) }

\* the tenants handed to the pool
Given == { tasks[t].tenant : t \in DOMAIN tasks }

\* C15: main() starts the workers on the list made after the creation loop:
\* with k tenants existing and target N it has max(k, N) entries, one task
\* each, holding every pre-existing tenant and every tenant created in this
\* run, and a task names its tenant by the identifier the server assigned.
C15_WorkersOnRelistedSet ==
  /\ pc \in {"submit", "as_completed", "done"} =>
       /\ Len(tenants) = Max(existing, target)
       /\ existing = Len(dir) - n_create
       /\ \A t \in DOMAIN tasks : t <= Len(tenants) /\ tasks[t].tenant = tenants[t]
  /\ pc \in {"as_completed", "done"} =>
       /\ Len(tasks) = Max(existing, target)
       /\ Cardinality(Given) = Max(existing, target)
       /\ PreExisting \cup CreatedThisRun = Given
       /\ \A t \in DOMAIN tasks :
            tasks[t].pc # "queued" =>
              /\ tasks[t].tenant_id = LastSegment(tasks[t].tenant)
              /\ \E j \in DOMAIN dir : dir[j] = TenantName(tasks[t].tenant_id)

C15_Witness ==
  /\ pc = "done"
  /\ existing = 1 /\ target = 2 /\ n_create = 1
  /\ Len(tasks) = 2
  /\ \A t \in DOMAIN tasks : tasks[t].tenant_id = ServerId(t)

\* a worker has begun, or a call of a worker has been made
WorkerActed ==
  \/ \E t \in DOMAIN tasks : tasks[t].pc # "queued"
  \/ user_calls # {}
  \/ reset_calls # {}

\* C16: reconciliation comes once and before any worker: a worker has acted
\* only if main() is past the creation loop and the second listing, every
\* one of the to_create create_tenant calls has been made, and the list the
\* workers were given is the directory after those calls; main() is then at
\* no point from which it could call create_tenant.
C16_ReconcileBeforeWorkers ==
  WorkerActed =>
    /\ pc \in {"submit", "as_completed", "done"}
    /\ i = to_create /\ n_create = to_create
    /\ n_insert = to_create /\ n_inherit = to_create
    /\ tenants = dir

C16_Witness ==
  /\ n_create = 2
  /\ \E t \in DOMAIN tasks : tasks[t].pc = "get_email"
  /\ \E t \in DOMAIN tasks : tasks[t].pc = "returned" /\ tasks[t].n_reset = 1

\* the tasks whose tenant has this identifier
TasksOf(id) == { t \in DOMAIN tasks : LastSegment(tasks[t].tenant) = id }

\* C17: main() submits one task per entry of the list, in order; the tasks'
\* tenants are pairwise different, and every create_user and every
\* send_password_reset call for a tenant was made by the one task that was
\* given that tenant.
C17_ExclusiveOwnership ==
  /\ Len(tasks) <= Len(tenants)
  /\ \A t \in DOMAIN tasks : tasks[t].tenant = tenants[t]
  /\ pc \in {"as_completed", "done"} => Len(tasks) = Len(tenants)
  /\ \A t, u \in DOMAIN tasks : t # u => tasks[t].tenant # tasks[u].tenant
  /\ \A c \in user_calls :
       /\ Cardinality(TasksOf(c[2])) = 1
       /\ \A t \in TasksOf(c[2]) :
            tasks[t].n_user = Cardinality({d \in user_calls : d[2] = c[2]})
  /\ \A c \in reset_calls :
       /\ Cardinality(TasksOf(c[2])) = 1
       /\ \A t \in TasksOf(c[2]) :
            tasks[t].n_reset = Cardinality({d \in reset_calls : d[2] = c[2]})

C17_Witness ==
  /\ pc = "done"
  /\ Len(tasks) = 2
  /\ Cardinality({c[2] : c \in user_calls}) = 2
  /\ Cardinality({c[2] : c \in reset_calls}) = 2

\* C18: at most MAX_WORKERS tenant tasks run at the same time; the others
\* stay queued.
C18_BoundedConcurrency == NumRunning <= MAX_WORKERS

C18_Witness ==
  /\ MAX_WORKERS = 1
  /\ NumRunning = 1
  /\ pc = "as_completed"
  /\ \E t \in DOMAIN tasks : tasks[t].pc = "queued"
  /\ \E t \in DOMAIN tasks : tasks[t].pc = "send_reset"

\* the fb_tenant row that links a tenant to the project row
RowOf(name) == [tenant_id |-> LastSegment(name), fb_project_id |-> supa_project_id]

\* C19: for each tenant the loop calls create_tenant, then inserts the
\* fb_tenant row, then calls update_tenant_inheritance, before the next
\* create_tenant; a response of update_tenant_inheritance that is not 200
\* leaves main() in the loop. So when workers exist, every tenant created in
\* this run has its fb_tenant row, linked to the project row.
C19_CreateInsertInherit ==
  /\ pc = "create_loop" => n_create = i /\ n_insert = i /\ n_inherit = i
  /\ pc = "insert" => n_create = i + 1 /\ n_insert = i /\ n_inherit = i
  /\ pc = "inherit" => n_create = i + 1 /\ n_insert = i + 1 /\ n_inherit = i
  /\ inherit_status # None => pc = "create_loop" /\ n_inherit = i
  /\ tasks # <<>> =>
       /\ project_row /\ supa_project_id # None
       /\ \A name \in CreatedThisRun : RowOf(name) \in fb_tenant

C19_Witness ==
  /\ n_create = 2
  /\ Cardinality(fb_tenant) = 2
  /\ \E t \in DOMAIN tasks : tasks[t].pc = "create_user"

\* the tenants of the list whose task has yet to get its email
Unfetched ==
  { t \in 1..Len(tenants) :
      t > Len(tasks) \/ tasks[t].pc \in {"queued", "get_email", "retry_sleep"} }

\* main() is in the with block and the source holds fewer emails than the
\* tasks still need
Starved ==
  /\ pc \in {"submit", "as_completed"}
  /\ SourceLeft < Cardinality(Unfetched)

\* C20: get_email() retries without bound, so main() reaches "Done" exactly
\* when every tenant task gets an email. With main() and the pool threads
\* scheduled fairly and a source that has an email for every task, main()
\* reaches "Done"; when the source has too few, main() never leaves the with
\* block, and a task that waits on the exhausted source stays in get_email(),
\* holding its pool thread, for ever. At "Done" every task has had its email.
C20_DoneIffEveryFetchSucceeds ==
  /\ (pc \in {"submit", "as_completed"} /\ ~Starved) ~> (pc = "done")
  /\ [][Starved => Starved']_vars
  /\ [][\A t \in DOMAIN tasks :
          (SourceLeft = 0 /\ tasks[t].pc \in {"get_email", "retry_sleep"})
            => /\ tasks'[t].pc \in {"get_email", "retry_sleep"}
               /\ Running(tasks'[t])
               /\ pc' # "done"]_vars
  /\ [](pc = "done" =>
          \A t \in DOMAIN tasks : tasks[t].pc = "returned" /\ tasks[t].n_user = 1)

C20_Witness ==
  /\ Starved
  /\ source_size = 1
  /\ pc = "as_completed"
  /\ \E t \in DOMAIN tasks : tasks[t].pc = "returned" /\ tasks[t].printed # None
  /\ \E t \in DOMAIN tasks :
       tasks[t].pc = "retry_sleep" /\ tasks[t].fails = MaxFetchFail

====
